---------------------------- MODULE Spec2Model ----------------------------
(***************************************************************************)
(* The Home page of banana-slides (frontend/src/pages/Home.tsx): the       *)
(* creation form, the template selection, the catalog of saved templates   *)
(* and the asynchronous handlers loadUserTemplates, handleTemplateUpload   *)
(* and handleSubmit.  Every await of a handler is a point where other      *)
(* event-loop tasks (clicks, edits, other handlers' continuations) may     *)
(* run, so every handler is cut into one action per await.                 *)
(***************************************************************************)
EXTENDS Integers, Sequences, FiniteSets, TLC

(* ------------------------------ bounds -------------------------------- *)
\* number of things the user does on the page in one behaviour: an edit of the
\* text, a click on a tab, a card or a button, a file picked in the upload input
MaxGestures == 4
\* number of records the catalog holds when the page is mounted
MaxCatalog == 1

(* ------------------------------ values -------------------------------- *)
\* type CreationType = 'idea' | 'outline' | 'description'
CreationType == {"idea", "outline", "description"}

\* texts the user types into the textarea: " " is a whitespace character
Contents == {<<>>, <<" ", " ">>, <<"a">>, <<" ", "a", " ">>}

\* useState<string | null>(null): no saved template is selected
NoTemplateId == 0
\* localStorage.getItem('currentProjectId') === null
NoProjectId == 0
\* an identifier left in localStorage by an earlier project
LeftoverProjectId == 1

\* File | null / File | undefined
NoFile == [name |-> "", type |-> ""]
\* content types an image fetch reports (blob.type)
MimeTypes == {"image/png", "image/jpeg"}
\* the file the user picks in <input type="file" accept="image/*">
Files == {[name |-> "a.png", type |-> "image/png"]}

\* a UserTemplate record of the catalog
UserTemplate(id) == [template_id |-> id, template_image_url |-> <<"files", id>>]

\* the list api.listUserTemplates() answers with: the newest record first
RECURSIVE CatalogOf(_)
CatalogOf(n) == IF n = 0 THEN <<>> ELSE <<UserTemplate(n)>> \o CatalogOf(n - 1)

\* navigate() was not called
NoTarget == [projectId |-> NoProjectId, view |-> ""]
\* initializeProject() was not called
NoCall == [type |-> "", content |-> <<>>, templateFile |-> NoFile]

(* ------------------------- pure functions ------------------------------ *)
\* String.prototype.trim(): drop the whitespace at both ends
RECURSIVE TrimStart(_)
TrimStart(s) == IF s # <<>> /\ Head(s) = " " THEN TrimStart(Tail(s)) ELSE s

RECURSIVE TrimEnd(_)
TrimEnd(s) ==
    IF s # <<>> /\ s[Len(s)] = " " THEN TrimEnd(SubSeq(s, 1, Len(s) - 1)) ELSE s

Trim(s) == TrimEnd(TrimStart(s))

\* !content.trim(): the empty string is falsy
IsBlankNoTrim(c) == c = <<>>
IsBlank(c) == Trim(c) = <<>>

\* userTemplates.find(t => t.template_id === id): is there such a record
HasTemplate(list, id) == \E i \in 1..Len(list) : list[i].template_id = id

\* new File([blob], 'template.png', { type: blob.type })
TemplateFileOf(blobType) == [name |-> "template.png", type |-> blobType]

\* the view a creation type is routed to
RouteForAllOutline(type) == "outline"
RouteFor(type) ==
    IF type = "idea" \/ type = "outline" THEN "outline" ELSE "detail"

(* ------------------------------ state ---------------------------------- *)
VARIABLES
    activeTab,            \* useState<CreationType>('idea')
    content,              \* useState('')
    selectedTemplate,     \* useState<File | null>(null)
    selectedTemplateId,   \* useState<string | null>(null)
    userTemplates,        \* useState<UserTemplate[]>([]): the catalog snapshot
    isLoadingTemplates,   \* useState(false)
    loadResult,           \* loadUserTemplates(): "pending", "ok", "nodata", "failed"
    uploads,              \* the calls of handleTemplateUpload, in start order
    subs,                 \* the calls of handleSubmit, in start order
    isGlobalLoading,      \* useProjectStore(): the Project Service's busy flag
    currentProjectId,     \* localStorage 'currentProjectId'
    nextProjectId,        \* the identifier the Project Service creates next
    toasts,               \* the notifications shown with show()
    gestures              \* the number of things the user has done so far

vars == <<activeTab, content, selectedTemplate, selectedTemplateId, userTemplates,
          isLoadingTemplates, loadResult, uploads, subs, isGlobalLoading,
          currentProjectId, nextProjectId, toasts, gestures>>

formVars == <<activeTab, content>>
templateVars == <<selectedTemplate, selectedTemplateId, userTemplates>>
loadVars == <<isLoadingTemplates, loadResult>>
projectVars == <<isGlobalLoading, currentProjectId, nextProjectId>>

Toast(message, type) == [message |-> message, type |-> type]


(* ------------------------------ Init ----------------------------------- *)
\* the first render: the useState() initial values; localStorage outlives the
\* page, so it is empty or holds the identifier of an earlier project
Init ==
    /\ activeTab = "idea"
    /\ content = <<>>
    /\ selectedTemplate = NoFile
    /\ selectedTemplateId = NoTemplateId
    /\ userTemplates = <<>>
    /\ isLoadingTemplates = FALSE
    /\ loadResult = "idle"
    /\ uploads = <<>>
    /\ subs = <<>>
    /\ isGlobalLoading = FALSE
    /\ currentProjectId \in {NoProjectId, LeftoverProjectId}
    /\ nextProjectId = LeftoverProjectId + 1
    /\ toasts = <<>>
    /\ gestures = 0

\* React runs the mount effect before it handles any event of the page
Mounted == loadResult # "idle"

\* one more thing the user does
Gesture ==
    /\ Mounted
    /\ gestures < MaxGestures
    /\ gestures' = gestures + 1

(* ----------------------- Creation Input Manager ------------------------ *)
\* a tab click that also resets the textarea
SetActiveTabClearsContent(type) ==
    /\ Gesture
    /\ type # activeTab
    /\ activeTab' = type
    /\ content' = <<>>
    /\ UNCHANGED <<templateVars, loadVars, uploads, subs, projectVars, toasts>>

\* onClick={() => setActiveTab(type)}
SetActiveTab(type) ==
    /\ Gesture
    /\ type # activeTab
    /\ activeTab' = type
    /\ UNCHANGED <<content, templateVars, loadVars, uploads, subs, projectVars, toasts>>

\* onChange={(e) => setContent(e.target.value)}
SetContent(c) ==
    /\ Gesture
    /\ c # content
    /\ content' = c
    /\ UNCHANGED <<activeTab, templateVars, loadVars, uploads, subs, projectVars, toasts>>

(* ----------------------- Template Source Manager ----------------------- *)
\* useEffect(() => { loadUserTemplates(); }, []) up to the await of the list
LoadUserTemplates ==
    /\ loadResult = "idle"
    /\ isLoadingTemplates' = TRUE
    /\ loadResult' = "pending"
    /\ UNCHANGED <<gestures, formVars, templateVars, uploads, subs, projectVars, toasts>>

\* api.listUserTemplates() answers with response.data.templates
LoadOk(n) ==
    /\ loadResult = "pending"
    /\ userTemplates' = CatalogOf(n)
    /\ isLoadingTemplates' = FALSE
    /\ loadResult' = "ok"
    /\ UNCHANGED <<gestures, formVars, selectedTemplate, selectedTemplateId, uploads, subs,
                   projectVars, toasts>>

\* api.listUserTemplates() answers without response.data.templates
LoadNoData ==
    /\ loadResult = "pending"
    /\ isLoadingTemplates' = FALSE
    /\ loadResult' = "nodata"
    /\ UNCHANGED <<gestures, formVars, templateVars, uploads, subs, projectVars, toasts>>

\* a failed list without the finally block
LoadFailKeepsLoading ==
    /\ loadResult = "pending"
    /\ loadResult' = "failed"
    /\ UNCHANGED <<gestures, isLoadingTemplates, formVars, templateVars, uploads, subs,
                   projectVars, toasts>>

\* api.listUserTemplates() throws: console.error only, then the finally block
LoadFail ==
    /\ loadResult = "pending"
    /\ isLoadingTemplates' = FALSE
    /\ loadResult' = "failed"
    /\ UNCHANGED <<gestures, formVars, templateVars, uploads, subs, projectVars, toasts>>

\* the record the catalog creates for the u-th upload of the page
UploadedTemplate(u) == UserTemplate(MaxCatalog + u)

\* an upload input that is not disabled while the list is loading
UploadStartWhileLoading(file) ==
    /\ Gesture
    /\ uploads' = Append(uploads, [pc |-> "uploading", file |-> file,
                                   template |-> UserTemplate(NoTemplateId)])
    /\ UNCHANGED <<formVars, templateVars, loadVars, subs, projectVars, toasts>>

\* handleTemplateUpload up to the await of api.uploadUserTemplate(file);
\* the input is disabled={isLoadingTemplates}, and no file picked is a no-op
UploadStart(file) ==
    /\ Gesture
    /\ ~isLoadingTemplates
    /\ uploads' = Append(uploads, [pc |-> "uploading", file |-> file,
                                   template |-> UserTemplate(NoTemplateId)])
    /\ UNCHANGED <<formVars, templateVars, loadVars, subs, projectVars, toasts>>

\* the selection after a successful upload
SelectionAfterUploadKeepFile(u) == <<uploads[u].file, UploadedTemplate(u).template_id>>
SelectionAfterUpload(u) == <<NoFile, UploadedTemplate(u).template_id>>

\* the snapshot after a successful upload: prev => [template, ...prev]
SnapshotAfterUploadAppend(u) == Append(userTemplates, UploadedTemplate(u))
SnapshotAfterUpload(u) == <<UploadedTemplate(u)>> \o userTemplates

\* api.uploadUserTemplate(file) answers with the new record in response.data
UploadOk(u) ==
    /\ uploads[u].pc = "uploading"
    /\ userTemplates' = SnapshotAfterUpload(u)
    /\ selectedTemplate' = SelectionAfterUpload(u)[1]
    /\ selectedTemplateId' = SelectionAfterUpload(u)[2]
    /\ toasts' = Append(toasts, Toast("upload succeeded", "success"))
    /\ uploads' = [uploads EXCEPT ![u].pc = "ok", ![u].template = UploadedTemplate(u)]
    /\ UNCHANGED <<gestures, formVars, loadVars, subs, projectVars>>

\* api.uploadUserTemplate(file) answers without response.data: nothing is done
UploadNoData(u) ==
    /\ uploads[u].pc = "uploading"
    /\ uploads' = [uploads EXCEPT ![u].pc = "nodata"]
    /\ UNCHANGED <<gestures, formVars, templateVars, loadVars, subs, projectVars, toasts>>

\* what the catch block of handleTemplateUpload leaves of the selection
SelectionAfterUploadFailCleared == <<NoFile, NoTemplateId>>
SelectionAfterUploadFail == <<selectedTemplate, selectedTemplateId>>

\* the notifications after the catch block of handleTemplateUpload
ToastsAfterUploadFailSilent == toasts
ToastsAfterUploadFail == Append(toasts, Toast("upload failed", "error"))

\* api.uploadUserTemplate(file) throws: console.error and an error toast
UploadFail(u) ==
    /\ uploads[u].pc = "uploading"
    /\ toasts' = ToastsAfterUploadFail
    /\ selectedTemplate' = SelectionAfterUploadFail[1]
    /\ selectedTemplateId' = SelectionAfterUploadFail[2]
    /\ uploads' = [uploads EXCEPT ![u].pc = "failed"]
    /\ UNCHANGED <<gestures, formVars, userTemplates, loadVars, subs, projectVars>>

\* onClick={() => handleSelectUserTemplate(template)} on a card of the snapshot
HandleSelectUserTemplate(i) ==
    /\ Gesture
    /\ i \in 1..Len(userTemplates)
    /\ selectedTemplateId # userTemplates[i].template_id
    /\ selectedTemplateId' = userTemplates[i].template_id
    /\ selectedTemplate' = NoFile
    /\ UNCHANGED <<formVars, userTemplates, loadVars, uploads, subs, projectVars, toasts>>

\* a remove that clears the local file only
HandleRemoveTemplateKeepsId ==
    /\ Gesture
    /\ selectedTemplateId # NoTemplateId
    /\ selectedTemplate' = NoFile
    /\ UNCHANGED <<selectedTemplateId, formVars, userTemplates, loadVars, uploads, subs,
                   projectVars, toasts>>

\* onClick={handleRemoveTemplate}: the button is rendered while selectedTemplateId is set
HandleRemoveTemplate ==
    /\ Gesture
    /\ selectedTemplateId # NoTemplateId
    /\ selectedTemplateId' = NoTemplateId
    /\ selectedTemplate' = NoFile
    /\ UNCHANGED <<formVars, userTemplates, loadVars, uploads, subs, projectVars, toasts>>

(* ------------- Submission Orchestrator: handleSubmit ------------------- *)
\* One call of handleSubmit.  activeTab, content, selectedTemplate and
\* selectedTemplateId are the values of the render whose closure was clicked;
\* blobType and templateFile are its locals; the other fields record what the
\* call has done: fetches and calls count fetch() and initializeProject(),
\* call holds the arguments of initializeProject(), result what it answered,
\* created the identifier it created, target the argument of navigate().
NewSubmit ==
    [pc |-> "start", activeTab |-> activeTab, content |-> content,
     selectedTemplate |-> selectedTemplate, selectedTemplateId |-> selectedTemplateId,
     blobType |-> "", templateFile |-> NoFile, resolution |-> "none",
     fetches |-> 0, calls |-> 0, call |-> NoCall, result |-> "",
     created |-> NoProjectId, outcome |-> "", target |-> NoTarget]

\* show({ message: '请输入内容', type: 'error' }); return
Rejected(r) == [r EXCEPT !.pc = "done", !.outcome = "rejected"]

\* await initializeProject(activeTab, content, templateFile)
CallInitializeProjectWithSelection(r, how) ==
    [r EXCEPT !.pc = "init", !.resolution = how, !.calls = @ + 1,
              !.call = [type |-> r.activeTab, content |-> r.content,
                        templateFile |-> r.selectedTemplate]]
CallInitializeProjectLatest(r, how) ==
    [r EXCEPT !.pc = "init", !.resolution = how, !.calls = @ + 1,
              !.call = [type |-> activeTab, content |-> content,
                        templateFile |-> r.templateFile]]
CallInitializeProject(r, how) ==
    [r EXCEPT !.pc = "init", !.resolution = how, !.calls = @ + 1,
              !.call = [type |-> r.activeTab, content |-> r.content,
                        templateFile |-> r.templateFile]]

\* const response = await fetch(imageUrl)
StartFetchAndCall(r) ==
    [CallInitializeProject(r, "fetching") EXCEPT !.pc = "fetch", !.fetches = @ + 1]
StartFetch(r) == [r EXCEPT !.pc = "fetch", !.resolution = "fetching", !.fetches = @ + 1]

\* the inner catch: console.warn, templateFile stays undefined, and on to line 130
ResolveFailedAborts(r, how) ==
    [r EXCEPT !.pc = "done", !.resolution = how, !.outcome = "failed"]
ResolveFailed(r, how) == CallInitializeProject([r EXCEPT !.templateFile = NoFile], how)

\* handleSubmit from the click to its first await (or to its return)
SubmitSteps(r) ==
    IF IsBlank(r.content)
    THEN Rejected(r)
    ELSE LET r1 == [r EXCEPT !.templateFile = r.selectedTemplate]
         IN  IF r.selectedTemplateId # NoTemplateId /\ r1.templateFile = NoFile
             THEN IF HasTemplate(userTemplates, r.selectedTemplateId)
                  THEN StartFetch(r1)
                  ELSE ResolveFailed(r1, "notfound")
             ELSE CallInitializeProject(r1,
                      IF r1.templateFile = NoFile THEN "none" ELSE "local")

\* <Button onClick={handleSubmit} loading={isGlobalLoading}>: a loading button
\* takes no click
SubmitEnabled == ~isGlobalLoading

\* initializeProject() sets the busy flag when it is called ...
BusyAfter(r) == isGlobalLoading \/ r.pc = "init"

\* ... and clears it when it returns or throws
ProjectServiceDone == isGlobalLoading' = FALSE

HandleSubmit ==
    /\ Gesture
    /\ SubmitEnabled
    /\ LET r == SubmitSteps(NewSubmit)
       IN  /\ subs' = Append(subs, r)
           /\ toasts' = IF r.outcome = "rejected"
                        THEN Append(toasts, Toast("content is empty", "error"))
                        ELSE toasts
           /\ isGlobalLoading' = BusyAfter(r)
    /\ UNCHANGED <<formVars, templateVars, loadVars, uploads, currentProjectId,
                   nextProjectId>>

\* fetch(imageUrl) answers; on to: const blob = await response.blob()
FetchOk(s, type) ==
    /\ subs[s].pc = "fetch"
    /\ subs' = [subs EXCEPT ![s].pc = "blob", ![s].blobType = type]
    /\ UNCHANGED <<gestures, formVars, templateVars, loadVars, uploads, projectVars, toasts>>

\* an inner catch that also drops the selection of the template it could not fetch
FetchFailClearsSelection(s) ==
    /\ subs[s].pc = "fetch"
    /\ LET r == ResolveFailed(subs[s], "neterror")
       IN  /\ subs' = [subs EXCEPT ![s] = r]
           /\ isGlobalLoading' = BusyAfter(r)
    /\ selectedTemplateId' = NoTemplateId
    /\ UNCHANGED <<gestures, formVars, selectedTemplate, userTemplates, loadVars, uploads,
                   currentProjectId, nextProjectId, toasts>>

\* fetch(imageUrl) throws a network error
FetchFail(s) ==
    /\ subs[s].pc = "fetch"
    /\ LET r == ResolveFailed(subs[s], "neterror")
       IN  /\ subs' = [subs EXCEPT ![s] = r]
           /\ isGlobalLoading' = BusyAfter(r)
    /\ UNCHANGED <<gestures, formVars, templateVars, loadVars, uploads, currentProjectId,
                   nextProjectId, toasts>>

\* response.blob() answers: templateFile = new File(...), and on to line 130
BlobOk(s) ==
    /\ subs[s].pc = "blob"
    /\ LET r == CallInitializeProject(
                    [subs[s] EXCEPT !.templateFile = TemplateFileOf(subs[s].blobType)],
                    "ok")
       IN  /\ subs' = [subs EXCEPT ![s] = r]
           /\ isGlobalLoading' = BusyAfter(r)
    /\ UNCHANGED <<gestures, formVars, templateVars, loadVars, uploads, currentProjectId,
                   nextProjectId, toasts>>

\* a body read error that fetches the image again
BlobFailRetries(s) ==
    /\ subs[s].pc = "blob"
    /\ subs' = [subs EXCEPT ![s].pc = "fetch"]
    /\ UNCHANGED <<gestures, formVars, templateVars, loadVars, uploads, projectVars, toasts>>

\* response.blob() throws while the body is read
BlobFail(s) ==
    /\ subs[s].pc = "blob"
    /\ LET r == ResolveFailed(subs[s], "readerror")
       IN  /\ subs' = [subs EXCEPT ![s] = r]
           /\ isGlobalLoading' = BusyAfter(r)
    /\ UNCHANGED <<gestures, formVars, templateVars, loadVars, uploads, currentProjectId,
                   nextProjectId, toasts>>

\* lines 133-143: the identifier read from localStorage decides
RouteAlways(r, projectId) ==
    [r EXCEPT !.pc = "done", !.outcome = "routed",
              !.target = [projectId |-> projectId, view |-> RouteFor(r.activeTab)]]
Route(r, projectId) ==
    IF projectId = NoProjectId
    THEN [r EXCEPT !.pc = "done", !.outcome = "idmissing"]
    ELSE [r EXCEPT !.pc = "done", !.outcome = "routed",
                   !.target = [projectId |-> projectId, view |-> RouteFor(r.activeTab)]]

\* initializeProject() returns having stored a new identifier; lines 133-143
InitOk(s) ==
    /\ subs[s].pc = "init"
    /\ currentProjectId' = nextProjectId
    /\ nextProjectId' = nextProjectId + 1
    /\ ProjectServiceDone
    /\ LET r == Route([subs[s] EXCEPT !.result = "ok", !.created = nextProjectId],
                      currentProjectId')
       IN  /\ subs' = [subs EXCEPT ![s] = r]
           /\ toasts' = IF r.outcome = "idmissing"
                        THEN Append(toasts, Toast("project creation failed", "error"))
                        ELSE toasts
    /\ UNCHANGED <<gestures, formVars, templateVars, loadVars, uploads>>

\* initializeProject() returns without having stored an identifier (the
\* inconsistent collaborator line 134 defends against); lines 133-143
InitOkNoId(s) ==
    /\ subs[s].pc = "init"
    /\ ProjectServiceDone
    /\ LET r == Route([subs[s] EXCEPT !.result = "noid"], currentProjectId)
       IN  /\ subs' = [subs EXCEPT ![s] = r]
           /\ toasts' = IF r.outcome = "idmissing"
                        THEN Append(toasts, Toast("project creation failed", "error"))
                        ELSE toasts
    /\ UNCHANGED <<gestures, formVars, templateVars, loadVars, uploads, currentProjectId,
                   nextProjectId>>

\* the outer catch: console.error only
InitFailedRoutes(r) ==
    RouteAlways([r EXCEPT !.result = "failed"], LeftoverProjectId)
InitFailed(r) == [r EXCEPT !.pc = "done", !.result = "failed", !.outcome = "failed"]

\* initializeProject() throws
InitFail(s) ==
    /\ subs[s].pc = "init"
    /\ ProjectServiceDone
    /\ subs' = [subs EXCEPT ![s] = InitFailed(subs[s])]
    /\ UNCHANGED <<gestures, formVars, templateVars, loadVars, uploads, currentProjectId,
                   nextProjectId, toasts>>

(* --------------------------- specification ----------------------------- *)
Next ==
    \/ \E type \in CreationType : SetActiveTab(type)
    \/ \E c \in Contents : SetContent(c)
    \/ LoadUserTemplates
    \/ \E n \in 0..MaxCatalog : LoadOk(n)
    \/ LoadNoData
    \/ LoadFail
    \/ \E file \in Files : UploadStart(file)
    \/ \E u \in 1..Len(uploads) : UploadOk(u)
    \/ \E u \in 1..Len(uploads) : UploadNoData(u)
    \/ \E u \in 1..Len(uploads) : UploadFail(u)
    \/ \E i \in 1..Len(userTemplates) : HandleSelectUserTemplate(i)
    \/ HandleRemoveTemplate
    \/ HandleSubmit
    \/ \E s \in 1..Len(subs), type \in MimeTypes : FetchOk(s, type)
    \/ \E s \in 1..Len(subs) : FetchFail(s)
    \/ \E s \in 1..Len(subs) : BlobOk(s)
    \/ \E s \in 1..Len(subs) : BlobFail(s)
    \/ \E s \in 1..Len(subs) : InitOk(s)
    \/ \E s \in 1..Len(subs) : InitOkNoId(s)
    \/ \E s \in 1..Len(subs) : InitFail(s)

Spec == Init /\ [][Next]_vars

\* the next continuation of the s-th call of handleSubmit: the promise it
\* awaits (fetch, response.blob, initializeProject) settles
SubmissionStep(s) ==
    /\ s \in 1..Len(subs)
    /\ \/ \E type \in MimeTypes : FetchOk(s, type)
       \/ FetchFail(s)
       \/ BlobOk(s)
       \/ BlobFail(s)
       \/ InitOk(s)
       \/ InitOkNoId(s)
       \/ InitFail(s)

\* the first render after the user opened the file dialog of the upload input
\* and picked nothing (if (file) is false: a gesture that changes no state)
InitFair ==
    /\ activeTab = "idea"
    /\ content = <<>>
    /\ selectedTemplate = NoFile
    /\ selectedTemplateId = NoTemplateId
    /\ userTemplates = <<>>
    /\ isLoadingTemplates = FALSE
    /\ loadResult = "idle"
    /\ uploads = <<>>
    /\ subs = <<>>
    /\ isGlobalLoading = FALSE
    /\ currentProjectId \in {NoProjectId, LeftoverProjectId}
    /\ nextProjectId = LeftoverProjectId + 1
    /\ toasts = <<>>
    /\ gestures = 1

\* every external call a submission awaits eventually returns or fails
SpecFair ==
    InitFair /\ [][Next]_vars /\ \A s \in 1..MaxGestures : WF_vars(SubmissionStep(s))

(* ------------------------------ claims --------------------------------- *)
Subs == 1..Len(subs)
Uploads == 1..Len(uploads)

\* a call of handleSubmit that passed validation and has not returned
InFlight(r) == r.pc \in {"fetch", "blob", "init"}

\* the text is empty after trimming: it holds whitespace only
AllSpaces(c) == \A i \in 1..Len(c) : c[i] = " "

\* C1: at most one submission is in flight at any time.
C1_OneInFlight == Cardinality({s \in Subs : InFlight(subs[s])}) <= 1

\* template resolution of a saved template failed
ResolutionFailed(r) == r.resolution \in {"notfound", "neterror", "readerror"}

\* C2: a submission with non-blank content and a saved template whose
\* resolution failed has called the Project Service exactly once, with the
\* submitted type and content and no template asset, and has routed when that
\* call succeeded (returned with a new identifier stored).
C2_DegradeNotAbort ==
    \A s \in Subs :
        LET r == subs[s]
        IN  (r.selectedTemplateId # NoTemplateId /\ ~AllSpaces(r.content)
                 /\ ResolutionFailed(r))
            => /\ r.fetches <= 1
               /\ r.calls = 1
               /\ r.call = [type |-> r.activeTab, content |-> r.content,
                            templateFile |-> NoFile]
               /\ r.result = "ok" => /\ r.outcome = "routed"
                                     /\ r.target.projectId = r.created

C2_Witness ==
    \E s \in Subs : /\ subs[s].resolution = "readerror"
                    /\ subs[s].result = "ok"
                    /\ subs[s].outcome = "routed"

\* C3: a submission that navigates goes to /project/{id}/outline for the types
\* idea and outline and to /project/{id}/detail for the type description; a
\* submission that does not navigate has no target.
C3_Routing ==
    \A s \in Subs :
        LET r == subs[s]
        IN  IF r.outcome = "routed"
            THEN /\ r.target.projectId # NoProjectId
                 /\ r.activeTab \in {"idea", "outline"} => r.target.view = "outline"
                 /\ r.activeTab = "description" => r.target.view = "detail"
            ELSE r.target = NoTarget

C3_Witness ==
    \E s \in Subs : /\ subs[s].outcome = "routed"
                    /\ subs[s].activeTab = "description"
                    /\ subs[s].target.view = "detail"
                    /\ subs[s].target.projectId = subs[s].created
                    /\ subs[s].created # NoProjectId

EmptyContentToast == Toast("content is empty", "error")

\* C4: a submission of content that is empty after trimming is rejected with an
\* error notification, without a fetch, a Project Service call or a navigation;
\* a submission of any other content passes validation and advances.
C4_Validation ==
    /\ \A s \in Subs :
          LET r == subs[s]
          IN  IF AllSpaces(r.content)
              THEN /\ r.pc = "done"
                   /\ r.outcome = "rejected"
                   /\ r.fetches = 0
                   /\ r.calls = 0
                   /\ r.target = NoTarget
              ELSE /\ r.outcome # "rejected"
                   /\ r.fetches + r.calls >= 1
    /\ Cardinality({i \in 1..Len(toasts) : toasts[i] = EmptyContentToast})
           = Cardinality({s \in Subs : AllSpaces(subs[s].content)})

C4_Witness ==
    \E s, t \in Subs : /\ subs[s].content = <<" ", " ">>
                       /\ subs[s].outcome = "rejected"
                       /\ EmptyContentToast \in {toasts[i] : i \in 1..Len(toasts)}
                       /\ subs[t].content = <<" ", "a", " ">>
                       /\ subs[t].calls = 1

\* C5: while a submission fetches its template or reads the body, it has not
\* called the Project Service; when it calls, the resolution is over and the
\* asset of the call is the outcome of the resolution.
C5_ResolveBeforeCall ==
    \A s \in Subs :
        LET r == subs[s]
        IN  /\ r.pc \in {"fetch", "blob"} => r.calls = 0
            /\ r.calls >= 1 =>
                  /\ r.resolution # "fetching"
                  /\ r.call.templateFile = r.templateFile
                  /\ r.call.templateFile =
                        IF r.resolution = "ok" THEN TemplateFileOf(r.blobType)
                        ELSE IF r.resolution = "local" THEN r.selectedTemplate
                        ELSE NoFile

C5_Witness ==
    \E s \in Subs : /\ subs[s].resolution = "ok"
                    /\ subs[s].fetches = 1
                    /\ subs[s].calls = 1
                    /\ subs[s].call.templateFile.type = "image/jpeg"

\* C6: a submission whose Project Service call failed has returned and has not
\* navigated.
C6_InitFailureNoRouting ==
    \A s \in Subs :
        subs[s].result = "failed"
            => /\ subs[s].pc = "done"
               /\ subs[s].outcome # "routed"
               /\ subs[s].target = NoTarget

C6_Witness ==
    \E s \in Subs : subs[s].result = "failed" /\ subs[s].calls = 1

ProjectFailedToast == Toast("project creation failed", "error")

\* C7: a submission whose Project Service call returned without producing a new
\* identifier has surfaced the generic failure and has not navigated.
C7_MissingIdNoRouting ==
    \A s \in Subs :
        subs[s].result = "noid"
            => /\ subs[s].outcome = "idmissing"
               /\ subs[s].target = NoTarget
               /\ ProjectFailedToast \in {toasts[i] : i \in 1..Len(toasts)}

\* C8: the local-file selection and the saved-template id are never both set.
C8_OneTemplateSource ==
    ~(selectedTemplate # NoFile /\ selectedTemplateId # NoTemplateId)

C8_Witness ==
    /\ selectedTemplateId # NoTemplateId
    /\ \E u \in Uploads : /\ uploads[u].pc = "ok"
                          /\ uploads[u].template.template_id = selectedTemplateId

\* C9: the step in which an upload succeeds puts the returned record in front of
\* the snapshot as it was, selects that record and clears the local file.
C9_UploadPrepends ==
    [][\A u \in Uploads :
          (uploads[u].pc = "uploading" /\ uploads'[u].pc = "ok")
              => /\ userTemplates' = <<uploads'[u].template>> \o userTemplates
                 /\ uploads'[u].template.template_id # NoTemplateId
                 /\ selectedTemplateId' = uploads'[u].template.template_id
                 /\ selectedTemplate' = NoFile]_vars

C9_Witness ==
    \E u \in Uploads : /\ uploads[u].pc = "ok"
                       /\ Len(userTemplates) >= 2
                       /\ userTemplates[1] = uploads[u].template
                       /\ selectedTemplateId = uploads[u].template.template_id

UploadFailedToast == Toast("upload failed", "error")

\* C10: the step in which an upload fails leaves the snapshot and the selection
\* as they were and shows one error notification.
C10_UploadFailureFrame ==
    [][\A u \in Uploads :
          (uploads[u].pc = "uploading" /\ uploads'[u].pc = "failed")
              => /\ UNCHANGED <<userTemplates, selectedTemplate, selectedTemplateId>>
                 /\ toasts' = Append(toasts, UploadFailedToast)]_vars

C10_Witness ==
    \E u \in Uploads : /\ uploads[u].pc = "failed"
                       /\ selectedTemplateId # NoTemplateId
                       /\ userTemplates # <<>>
                       /\ toasts # <<>>
                       /\ toasts[Len(toasts)] = UploadFailedToast

\* C11: a remove step leaves no local file and no saved-template id selected and
\* changes neither the snapshot, nor the creation type, nor the content.
C11_RemoveResets ==
    [][HandleRemoveTemplate
          => /\ selectedTemplate' = NoFile
             /\ selectedTemplateId' = NoTemplateId
             /\ UNCHANGED <<userTemplates, activeTab, content>>]_vars

\* the id selected by a successful upload has been removed again
C11_Witness ==
    /\ selectedTemplateId = NoTemplateId
    /\ selectedTemplate = NoFile
    /\ Len(uploads) = 1
    /\ uploads[1].pc = "ok"
    /\ userTemplates # <<>>
    /\ userTemplates[1] = uploads[1].template

\* the notifications the handlers of the page have shown so far
ToastsOfHandlers ==
    Cardinality({s \in Subs : subs[s].outcome \in {"rejected", "idmissing"}})
        + Cardinality({u \in Uploads : uploads[u].pc \in {"ok", "failed"}})

\* C12: once the catalog-list request has failed, the loading flag is cleared,
\* the snapshot is empty (until an upload succeeds), every notification shown
\* comes from a submission or an upload, and the submit button takes a click.
C12_SilentListFailure ==
    loadResult = "failed"
        => /\ ~isLoadingTemplates
           /\ (\A u \in Uploads : uploads[u].pc # "ok") => userTemplates = <<>>
           /\ Len(toasts) = ToastsOfHandlers
           /\ (gestures < MaxGestures /\ ~isGlobalLoading) => ENABLED HandleSubmit

C12_Witness ==
    /\ loadResult = "failed"
    /\ userTemplates = <<>>
    /\ toasts = <<>>
    /\ \E s \in Subs : subs[s].outcome = "routed" /\ subs[s].created # NoProjectId

C14_SubmissionFrame ==
    [][subs' # subs
          => UNCHANGED <<selectedTemplate, selectedTemplateId, userTemplates>>]_vars

C14_Witness ==
    \E s \in Subs : /\ subs[s].resolution = "neterror"
                    /\ subs[s].pc = "done"
                    /\ selectedTemplateId = subs[s].selectedTemplateId
                    /\ selectedTemplateId # NoTemplateId

\* C15: a step that changes the active creation type changes neither the
\* content, nor the template selection, nor the snapshot.
C15_TypeSwitchFrame ==
    [][activeTab' # activeTab
          => UNCHANGED <<content, selectedTemplate, selectedTemplateId,
                         userTemplates>>]_vars

C15_Witness ==
    /\ activeTab = "description"
    /\ content = <<" ", "a", " ">>
    /\ selectedTemplateId # NoTemplateId
    /\ userTemplates # <<>>

\* C16: a submission that navigates goes to the project its own Project Service
\* call created.
C16_OwnProjectId ==
    \A s \in Subs :
        subs[s].outcome = "routed"
            => /\ subs[s].created # NoProjectId
               /\ subs[s].target.projectId = subs[s].created

\* the stages of a submission, in order
Stage(pc) == CASE pc = "fetch" -> 1 [] pc = "blob" -> 2 [] pc = "init" -> 3
               [] pc = "done" -> 4

\* C17: every call of handleSubmit eventually returns, when the calls it awaits
\* settle; it never steps back to an earlier stage, and it ends rejected,
\* routed or failed.
C17_SubmissionTerminates ==
    /\ \A s \in 1..MaxGestures :
          (s \in Subs) ~> (s \in Subs /\ subs[s].pc = "done")
    /\ [][\A s \in Subs : Stage(subs'[s].pc) >= Stage(subs[s].pc)]_vars
    /\ [](\A s \in Subs :
             subs[s].pc = "done"
                 => subs[s].outcome \in {"rejected", "routed", "failed", "idmissing"})

C17_Witness ==
    \E s \in Subs : /\ subs[s].pc = "done"
                    /\ subs[s].resolution = "ok"
                    /\ subs[s].fetches = 1
                    /\ subs[s].calls = 1
                    /\ subs[s].outcome = "routed"

\* the synthetic filenames whose extension corresponds to a content type
SyntheticNames(type) ==
    IF type = "image/png" THEN {"template.png"}
    ELSE IF type = "image/jpeg" THEN {"template.jpg", "template.jpeg"}
    ELSE {}

\* C18: the asset of a successfully resolved saved template has the content
\* type the fetch reported and a filename template.<ext> of that content type.
C18_AssetNameMatchesType ==
    \A s \in Subs :
        (subs[s].resolution = "ok" /\ subs[s].calls >= 1)
            => /\ subs[s].call.templateFile.type = subs[s].blobType
               /\ subs[s].call.templateFile.name \in SyntheticNames(subs[s].blobType)

\* C19: a selected saved-template id is the id of a record of the snapshot.
C19_SelectedIsInSnapshot ==
    selectedTemplateId # NoTemplateId
        => \E i \in 1..Len(userTemplates) :
               userTemplates[i].template_id = selectedTemplateId

C19_Witness ==
    /\ loadResult = "ok"
    /\ Len(userTemplates) >= 2
    /\ \E u \in Uploads : /\ uploads[u].pc = "ok"
                          /\ selectedTemplateId = uploads[u].template.template_id
    /\ \E i \in 1..Len(userTemplates) :
           userTemplates[i].template_id = selectedTemplateId

\* C20: a call of handleSubmit keeps the creation type, the content and the
\* template reference of its click whatever the user does meanwhile; the
\* Project Service receives that type and content, the template is resolved
\* only when that reference is a saved template, and the view of the
\* navigation is the one of the type passed to the Project Service.
C20_SubmitTimeValues ==
    /\ [](\A s \in Subs :
             LET r == subs[s]
             IN  /\ r.calls >= 1 => /\ r.call.type = r.activeTab
                                    /\ r.call.content = r.content
                 /\ r.fetches >= 1 => r.selectedTemplateId # NoTemplateId
                 /\ r.outcome = "routed"
                        => /\ r.call.type \in {"idea", "outline"}
                                  => r.target.view = "outline"
                           /\ r.call.type = "description" => r.target.view = "detail")
    /\ [][\A s \in Subs :
             /\ subs'[s].activeTab = subs[s].activeTab
             /\ subs'[s].content = subs[s].content
             /\ subs'[s].selectedTemplate = subs[s].selectedTemplate
             /\ subs'[s].selectedTemplateId = subs[s].selectedTemplateId]_vars
    /\ [][Len(subs') > Len(subs)
             => /\ subs'[Len(subs')].activeTab = activeTab
                /\ subs'[Len(subs')].content = content
                /\ subs'[Len(subs')].selectedTemplate = selectedTemplate
                /\ subs'[Len(subs')].selectedTemplateId = selectedTemplateId]_vars

\* the user switched the type while the template was fetched, and the Project
\* Service was called with the type of the click
C20_Witness ==
    \E s \in Subs : /\ subs[s].pc = "init"
                    /\ subs[s].resolution = "ok"
                    /\ subs[s].activeTab = "idea"
                    /\ activeTab = "description"
                    /\ subs[s].call.type = "idea"

=============================================================================
